---- MODULE Spec2Model ----
(***************************************************************************)
(* Model of camera_motion_recorder.py: camera selection, webcam opening,   *)
(* resolution probing, sensitivity calibration, output negotiation and the *)
(* frame-by-frame motion-trigger loop of main().                           *)
(*                                                                         *)
(* Time is the value of time.time(), in whole seconds since the first      *)
(* frame was read.  The clock never runs backwards and may have advanced   *)
(* from one time read to the next.  The threshold `sensitivity` is a       *)
(* Python float in the program; it is kept here as the exact fraction      *)
(* n/d in lowest terms.                                                    *)
(***************************************************************************)
EXTENDS Integers, Sequences, FiniteSets, TLC

\* ------------------------------------------------------------------ bounds
\* Frames the capture device delivers in one run.
MaxTicks == 3
\* Calls of initialize() in the calibration harness (SpecCal).
MaxCalls == 2

\* ------------------------------------------------------- program constants
\* Settings (module level)
nominal_sensitivity == 700
recording_duration == 30
\* get_available_cameras: indices probed
num_cameras == 5
\* reference resolution of the sensitivity scaling
ref_width == 1280
ref_height == 720

\* find_highest_resolution: candidates in descending order of quality
resolutions_to_try == << <<1920, 1080>>, <<1280, 720>>, <<640, 480>>, <<320, 240>> >>

\* start_recording: container formats in order of preference, and their
\* file extensions
preferred_containers == << "MKV", "MP4" >>

file_extension(container_format) ==
    IF container_format = "MKV" THEN ".mkv" ELSE ".mp4"

\* -------------------------------------------------------- input domains
\* Seconds between the last time read of one loop pass and the first of the
\* next.
Steps == {0, 1, recording_duration - 1, recording_duration}
\* Seconds the clock advances between two time reads of one loop pass.
Drift == {0, 1}
\* Indices at which a camera may be connected.
Connected == {0, 1}
\* Contour areas a frame may contain (cv2.contourArea values).
Areas == {600, 2000}
\* Nominal thresholds and frame sizes fed to initialize() in SpecCal.
Nominals == {100, nominal_sensitivity}
Widths == {0, 320, 640, 1280, 1920}
Heights == {0, 240, 480, 720, 1080}

\* Python's None, for the object-valued globals
None == 0

VARIABLES
    pc,                        \* position of the program
    exit_status,               \* process exit status once pc = "exited"
    exit_kind,                 \* why the process ended
    printed,                   \* messages printed by the latest step
    selected_camera_index,     \* main: result of create_camera_selection_window, as <<>> or <<i>>
    max_width, max_height,     \* main: find_highest_resolution's result
    requested,                 \* resolutions requested on the device, in order
    device,                    \* what the device reads back for each candidate (<< >> before the probe)
    sensitivity,               \* global: threshold, fraction [n, d]
    calls,                     \* number of initialize() calls so far
    thresholds,                \* threshold produced by each initialize() call
    folder_exists,             \* os.path.exists(output_folder)
    motion_detected,           \* global: a session is active (RECORDING)
    video_out,                 \* global: None or index of a writer in sinks
    recording_number,          \* global: sequence number of the session
    bound,                     \* locals of main that have been assigned
    motion_detected_realtime,  \* local of main
    last_motion_time,          \* local of main
    recording_start_time,      \* local of main
    recording_time_s,          \* local of main, shown as recording_time_text
    recording_number_text,     \* local of main (the number in the text)
    sinks,                     \* every cv2.VideoWriter constructed, in order
    attempts,                  \* containers tried by the latest start_recording
    sessions,                  \* sequence numbers of the sessions started
    clock,                     \* time.time()
    now,                       \* time read by the inactivity check of the latest pass
    tick,                      \* frames read so far
    contours,                  \* contour areas of the latest frame
    motion_now,                \* latest frame: some contour area exceeds the threshold
    checked,                   \* latest pass ran the inactivity check (line 454 true)
    ended                      \* latest pass completed the session (line 460 true)

vars == << pc, exit_status, exit_kind, printed, selected_camera_index,
           max_width, max_height, requested, device, sensitivity, calls,
           thresholds, folder_exists, motion_detected, video_out, recording_number, bound,
           motion_detected_realtime, last_motion_time, recording_start_time,
           recording_time_s, recording_number_text, sinks, attempts, sessions,
           clock, now, tick, contours, motion_now, checked, ended >>

\* ------------------------------------------------------------- arithmetic
RECURSIVE GCD(_, _)
GCD(a, b) == IF b = 0 THEN a ELSE GCD(b, a % b)

\* The fraction n/d in lowest terms (d > 0).
Frac(n, d) ==
    LET g == GCD(n, d) IN
    IF n = 0 THEN [n |-> 0, d |-> 1] ELSE [n |-> n \div g, d |-> d \div g]

\* The scaling with floor division (//) in place of the division.
ScaleSensitivity_Floor(s, w, h) ==
    LET area == w * h
        ref  == ref_width * ref_height
        g    == GCD(area, ref)
    IN  IF area = 0 THEN Frac(0, 1)
        ELSE Frac((s.n * (area \div g)) \div (s.d * (ref \div g)), 1)

\* initialize: sensitivity * (max_width * max_height) / (1280 * 720)
ScaleSensitivity(s, w, h) ==
    LET area == w * h
        ref  == ref_width * ref_height
        g    == GCD(area, ref)
    IN  IF area = 0 THEN Frac(0, 1)
        ELSE Frac(s.n * (area \div g), s.d * (ref \div g))

\* main: cv2.contourArea(contour) > sensitivity
Exceeds(area, s) == area * s.d > s.n

\* main, contour loop: it breaks on the first contour above the threshold
MotionNow(cs, s) == \E a \in cs : Exceeds(a, s)

\* ------------------------------------------------------------ the writers
\* A cv2.VideoWriter object: the session number and extension of its file
\* name, whether its constructor opened it, whether it reports isOpened(),
\* how often release() was called on it, and the frames written to it.
NewWriter(number, stamp, container_format, ok) ==
    [ number |-> number, stamp |-> stamp,
      ext |-> file_extension(container_format),
      opened |-> ok, isOpened |-> ok, releases |-> 0, frames |-> << >> ]

\* video_out.release(); `closes` is whether the handle reports closed after
\* it.  A writer that never opened stays closed.
Release(ss, v, closes) ==
    [ ss EXCEPT ![v] = [ @ EXCEPT !.releases = @ + 1,
                                  !.isOpened = @ /\ ~closes ] ]

\* A writer that puts each frame in front of the frames it holds
WriteFrame_InFront(ss, v, f) ==
    [ ss EXCEPT ![v] = [ @ EXCEPT !.frames = << f >> \o @ ] ]

\* video_out.write(outframe)
WriteFrame(ss, v, f) ==
    [ ss EXCEPT ![v] = [ @ EXCEPT !.frames = Append(@, f) ] ]

\* The loop of start_recording with the break removed: every container is
\* tried.
RECURSIVE TryAllContainers(_, _)
TryAllContainers(i, opens) ==
    IF i > Len(preferred_containers) THEN << >>
    ELSE << [ container |-> preferred_containers[i],
              ok |-> opens[preferred_containers[i]] ] >>
         \o TryAllContainers(i + 1, opens)

\* start_recording, lines 287-311, from container i on: the writers
\* constructed, in order, when `opens` tells which containers the encoder
\* accepts.  The loop breaks at the first writer that reports isOpened().
RECURSIVE TryContainers(_, _)
TryContainers(i, opens) ==
    IF i > Len(preferred_containers) THEN << >>
    ELSE LET c == preferred_containers[i] IN
         IF opens[c] THEN << [ container |-> c, ok |-> TRUE ] >>
         ELSE << [ container |-> c, ok |-> FALSE ] >> \o TryContainers(i + 1, opens)

start_recording_NoBreak(opens) == TryAllContainers(1, opens)

\* start_recording: the open attempts it makes, in order
start_recording(opens) == TryContainers(1, opens)

\* start_recording, lines 312-314: the for-else branch runs (and the
\* process exits) when the loop ended without a break.
NoContainerWorks_Never(tried) == FALSE

NoContainerWorks(tried) == \A k \in 1..Len(tried) : ~tried[k].ok

\* --------------------------------------------------------- the state machine
\* main, line 437: a session is started only when none is active
StartsSession_Always(md) == TRUE

StartsSession(md) == ~md

\* main, line 455: the time the inactivity check compares
RecordingTime_FromStart(t, last, start) == t - start

RecordingTime(t, last, start) == t - last

\* An inactivity test that fires one second early
Expired_Early(recording_time) == recording_time >= recording_duration - 1

\* main, line 460
Expired(recording_time) == recording_time >= recording_duration

\* last_motion_time set on every pass
LastMotionTime_Always(mnow, t, last) == t

\* main, line 447: last_motion_time is set on a pass with motion only
LastMotionTime(mnow, t, last) == IF mnow THEN t ELSE last

\* main, line 464: the message is printed when the writer is NOT open
CloseMessage(stillOpen) == ~stillOpen

\* main, line 467
ClearedWriter_Kept(v) == v

ClearedWriter(v) == None

\* main, line 469
NextRecordingNumber_Same(n) == n

NextRecordingNumber(n) == n + 1

\* main, lines 484-485: the clean-up after the loop
CleanUp_NoRelease(ss, v, closes) == ss

CleanUp(ss, v, closes) == IF v # None THEN Release(ss, v, closes) ELSE ss

\* display_information with the recording frame given the texts of the
\* display frame
display_information_SameText(cs, realtime, time_s, number, stamp) ==
    LET text == [ timestamp |-> stamp,
                  status    |-> IF realtime THEN "Motion detected"
                                ELSE "No motion detected",
                  time      |-> time_s,
                  number    |-> number ]
    IN  [ frame    |-> [ text |-> text, highlight |-> cs ],
          outframe |-> [ text |-> text, highlight |-> {} ] ]

\* display_information, lines 317-371: outframe is copied from the source
\* frame before anything is drawn (line 337); the timestamp, the motion
\* status, the recording time and the recording number are put on frame
\* (lines 344-351), the timestamp, the recording time and the recording
\* number on outframe (lines 354-356); the contours are blended into frame
\* only (lines 361-369).  A frame is its texts and its highlighted contours.
display_information(cs, realtime, time_s, number, stamp) ==
    [ frame    |-> [ text      |-> [ timestamp |-> stamp,
                                     status    |-> IF realtime THEN "Motion detected"
                                                   ELSE "No motion detected",
                                     time      |-> time_s,
                                     number    |-> number ],
                     highlight |-> cs ],
      outframe |-> [ text      |-> [ timestamp |-> stamp,
                                     time      |-> time_s,
                                     number    |-> number ],
                     highlight |-> {} ] ]

\* main, lines 471-472: the locals display_information is called with
DisplayArguments ==
    { "motion_detected_realtime", "recording_time_text", "recording_number_text" }

\* ------------------------------------------------------------------ start
Init ==
    /\ pc = "select"
    /\ exit_status = 0
    /\ exit_kind = "running"
    /\ printed = {}
    /\ selected_camera_index = << >>
    /\ max_width = 0
    /\ max_height = 0
    /\ requested = << >>
    /\ device = << >>
    /\ sensitivity = Frac(nominal_sensitivity, 1)
    /\ calls = 0
    /\ thresholds = << >>
    /\ folder_exists \in BOOLEAN
    /\ motion_detected = FALSE
    /\ video_out = None
    /\ recording_number = 1
    /\ bound = {}
    /\ motion_detected_realtime = FALSE
    /\ last_motion_time = 0
    /\ recording_start_time = 0
    /\ recording_time_s = 0
    /\ recording_number_text = 0
    /\ sinks = << >>
    /\ attempts = << >>
    /\ sessions = << >>
    /\ clock = 0
    /\ now = 0
    /\ tick = 0
    /\ contours = {}
    /\ motion_now = FALSE
    /\ checked = FALSE
    /\ ended = FALSE

loopVars == << motion_detected, video_out, recording_number, bound,
               motion_detected_realtime, last_motion_time, recording_start_time,
               recording_time_s, recording_number_text, sinks, attempts, sessions,
               clock, now, tick, contours, motion_now, checked, ended >>

\* exit(status): the process ends
Exit(kind, status) ==
    /\ pc' = "exited"
    /\ exit_kind' = kind
    /\ exit_status' = status

\* create_camera_selection_window and main, lines 389-393.  `available` are
\* the indices that open; with several, the user picks one in the window or
\* closes the window without picking.
SelectCamera ==
    /\ pc = "select"
    /\ \E available \in SUBSET ((0 .. num_cameras - 1) \cap Connected) :
       \E pick \in { << >> } \cup { << i >> : i \in available } :
          /\ (Cardinality(available) = 1 => pick # << >>)
          /\ selected_camera_index' = pick
          /\ IF pick = << >>
             THEN /\ printed' = (IF available = {} THEN { "No available cameras found." } ELSE {})
                                \cup { "No camera selected" }
                  /\ Exit("no_camera", 0)
             ELSE /\ printed' = {}
                  /\ pc' = "webcam"
                  /\ UNCHANGED << exit_kind, exit_status >>
    /\ UNCHANGED << max_width, max_height, requested, device, sensitivity,
                    calls, thresholds, folder_exists >>
    /\ UNCHANGED loopVars

\* initialize_webcam and main, lines 395-399.  v4l2, alt: whether the
\* camera opens with the V4L2 backend, with the default backend.  The
\* function returns only an opened camera, so the exit() of main line 399
\* is never reached.
InitializeWebcam ==
    /\ pc = "webcam"
    /\ \E v4l2 \in BOOLEAN, alt \in BOOLEAN, mjpeg \in BOOLEAN :
         LET warn == IF mjpeg THEN {} ELSE { "Warning: MJPEG could not be used." } IN
         IF v4l2
         THEN /\ printed' = warn
              /\ pc' = "resolution"
              /\ UNCHANGED << exit_kind, exit_status >>
         ELSE IF alt
         THEN /\ printed' = { "Error: Unable to open the camera with V4L2.",
                              "Camera opened successfully." } \cup warn
              /\ pc' = "resolution"
              /\ UNCHANGED << exit_kind, exit_status >>
         ELSE /\ printed' = { "Error: Unable to open the camera with V4L2.",
                              "Error: Alternative method failed to open the camera." }
              /\ Exit("camera_not_opened", 1)
    /\ UNCHANGED << selected_camera_index, max_width, max_height, requested,
                    device, sensitivity, calls, thresholds, folder_exists >>
    /\ UNCHANGED loopVars

\* What the device reports after a request: the request, or a size that
\* differs from it in height, in width or in both.
Kinds == { "exact", "width_only", "height_only", "neither" }

ReadBack(want, kind) ==
    << IF kind \in { "exact", "width_only" } THEN want[1] ELSE 160,
       IF kind \in { "exact", "height_only" } THEN want[2] ELSE 120 >>

\* Every device behaviour: what is read back for each candidate.
Devices == [ 1 .. Len(resolutions_to_try) -> Kinds ]

\* The cameras of the runs of main: one that accepts 1280x720, one that
\* accepts 640x480 and reports a wrong height for 1280x720, and one that
\* accepts no candidate.
Cameras ==
    { [ i \in 1 .. Len(resolutions_to_try) |->
          IF i >= first THEN "exact" ELSE IF i = 2 THEN "width_only" ELSE "neither" ]
      : first \in { 2, 3, Len(resolutions_to_try) + 1 } }

\* find_highest_resolution, lines 207-223, from candidate i on: the size
\* returned and the sizes requested on the device, in order.
RECURSIVE ProbeFrom(_, _)
ProbeFrom(i, dev) ==
    IF i > Len(resolutions_to_try) THEN [ size |-> << 0, 0 >>, requested |-> << >> ]
    ELSE LET want == resolutions_to_try[i]
             got  == ReadBack(want, dev[i])
         IN  IF got[1] = want[1] /\ got[2] = want[2]
             THEN [ size |-> want, requested |-> << want >> ]
             ELSE LET rest == ProbeFrom(i + 1, dev) IN
                  [ size |-> rest.size, requested |-> << want >> \o rest.requested ]

\* The probe with the height comparison of line 217 left out.
RECURSIVE ProbeWidthFrom(_, _)
ProbeWidthFrom(i, dev) ==
    IF i > Len(resolutions_to_try) THEN [ size |-> << 0, 0 >>, requested |-> << >> ]
    ELSE LET want == resolutions_to_try[i]
             got  == ReadBack(want, dev[i])
         IN  IF got[1] = want[1]
             THEN [ size |-> want, requested |-> << want >> ]
             ELSE LET rest == ProbeWidthFrom(i + 1, dev) IN
                  [ size |-> rest.size, requested |-> << want >> \o rest.requested ]

find_highest_resolution_WidthOnly(dev) == ProbeWidthFrom(1, dev)

find_highest_resolution(dev) == ProbeFrom(1, dev)

\* main, lines 401-406, on a device drawn from devs
FindResolutionOn(devs) ==
    /\ pc = "resolution"
    /\ \E dev \in devs :
         LET r == find_highest_resolution(dev) IN
         /\ device' = dev
         /\ max_width' = r.size[1]
         /\ max_height' = r.size[2]
         /\ requested' = r.requested
         /\ printed' = IF r.size[1] = 0 \/ r.size[2] = 0
                       THEN { "Error: No supported resolution found." }
                       ELSE { "Highest supported resolution" }
    /\ pc' = "initialize"
    /\ UNCHANGED << exit_kind, exit_status, selected_camera_index, sensitivity,
                    calls, thresholds, folder_exists >>
    /\ UNCHANGED loopVars

FindResolution == FindResolutionOn(Cameras)

\* initialize(max_width, max_height), lines 241-259; `mkdir_ok` is whether
\* os.mkdir succeeds when the folder is missing.  On return the program is
\* at `next`.
initialize(w, h, next) ==
    \E mkdir_ok \in BOOLEAN :
       IF ~folder_exists /\ ~mkdir_ok
       THEN /\ printed' = { "Error creating the directory" }
            /\ Exit("directory_not_created", 1)
            /\ UNCHANGED << sensitivity, calls, thresholds, folder_exists >>
       ELSE /\ folder_exists' = TRUE
            /\ sensitivity' = ScaleSensitivity(sensitivity, w, h)
            /\ thresholds' = Append(thresholds, sensitivity')
            /\ calls' = calls + 1
            /\ printed' = (IF folder_exists THEN {} ELSE { "The directory has been created." })
                          \cup { "Resolution-adjusted sensitivity" }
            /\ pc' = next
            /\ UNCHANGED << exit_kind, exit_status >>

\* main, line 408
Initialize ==
    /\ pc = "initialize"
    /\ initialize(max_width, max_height, "loop")
    /\ UNCHANGED << selected_camera_index, max_width, max_height, requested,
                    device >>
    /\ UNCHANGED loopVars

Containers == { preferred_containers[i] : i \in 1 .. Len(preferred_containers) }

\* Which containers the encoder accepts; read only by start_recording.
WriterOutcomes(used) ==
    IF used THEN [ Containers -> BOOLEAN ] ELSE { [ c \in Containers |-> TRUE ] }

\* Whether a writer reports closed after release(); read only when a
\* writer is released.
ReleaseOutcomes(used) == IF used THEN BOOLEAN ELSE { TRUE }

\* The clock's advance between the time reads of one pass: from line 445
\* (read on a trigger) to line 447 (read on motion), and from there to lines
\* 455-456 (read while a session is active).  Lines 439 and 445 are taken as
\* one read, and so are lines 455 and 456.
Drifts(trigger, mnow) ==
    { d \in [ 1 .. 2 -> Drift ] :
        /\ (~trigger => d[1] = 0)
        /\ (~mnow => d[2] = 0) }

\* main, lines 415-481 and, when the loop is left, 483-488: one pass of the
\* loop over a frame that was read.  Inputs: the seconds since the previous
\* time read, the frame's contour areas, which containers the encoder
\* accepts, the clock's advance between the time reads of the pass, whether
\* a released writer reports closed, and whether the quit key is down.
Tick ==
    /\ pc = "loop"
    /\ tick < MaxTicks
    /\ \E step \in (IF tick = 0 THEN { 0 } ELSE Steps), cs \in SUBSET Areas :
       LET t0      == clock + step
           mnow    == MotionNow(cs, sensitivity)
           \* line 437
           trigger == mnow /\ StartsSession(motion_detected)
           md1     == motion_detected \/ trigger
       IN
       \E opens \in WriterOutcomes(trigger), d \in Drifts(trigger, mnow) :
       LET \* lines 439-443
           tried   == IF trigger THEN start_recording(opens) ELSE << >>
           fatal   == trigger /\ NoContainerWorks(tried)
           sinks1  == sinks \o [ k \in 1 .. Len(tried) |->
                          NewWriter(recording_number, t0, tried[k].container, tried[k].ok) ]
           video1  == IF trigger THEN Len(sinks1) ELSE video_out
           \* lines 445-451
           tA      == t0
           tB      == tA + d[1]
           start1  == IF trigger THEN tA ELSE recording_start_time
           last1   == LastMotionTime(mnow, tB, last_motion_time)
           rt1     == IF mnow THEN TRUE
                      ELSE IF cs # {} THEN FALSE ELSE motion_detected_realtime
           bound1  == bound
                      \cup (IF cs # {} THEN { "motion_detected_realtime" } ELSE {})
                      \cup (IF mnow THEN { "last_motion_time" } ELSE {})
                      \cup (IF trigger THEN { "current_time", "video_name",
                                              "recording_start_time" } ELSE {})
           \* lines 454-469
           tC      == tB + d[2]
           tD      == tC
           rtime   == RecordingTime(tC, last1, start1)
           expire  == md1 /\ Expired(rtime)
           bound2  == bound1 \cup (IF md1 THEN { "recording_time", "recording_time_s",
                                                 "recording_time_text",
                                                 "recording_number_text" } ELSE {})
           video2  == IF expire THEN ClearedWriter(video1) ELSE video1
           md2     == md1 /\ ~expire
           num2    == IF expire THEN NextRecordingNumber(recording_number)
                      ELSE recording_number
           \* lines 471-472: an unassigned local raises UnboundLocalError
           crash   == ~(DisplayArguments \subseteq bound2)
           msgs1   == { IF tried[k].ok THEN "Video successfully created"
                        ELSE "Error: Unable to create the video with container format"
                        : k \in 1 .. Len(tried) }
       IN
       /\ tick' = tick + 1
       /\ contours' = cs
       /\ motion_now' = mnow
       /\ attempts' = IF trigger THEN tried ELSE attempts
       /\ IF fatal
          THEN \* start_recording, lines 312-314: exit(1)
               /\ Exit("output_unavailable", 1)
               /\ printed' = msgs1 \cup { "Error: Unable to create a video file." }
               /\ motion_detected' = md1
               /\ video_out' = video1
               /\ sinks' = sinks1
               /\ bound' = bound \cup { "current_time", "video_name" }
               /\ clock' = t0
               /\ checked' = FALSE
               /\ ended' = FALSE
               /\ UNCHANGED << recording_number, motion_detected_realtime,
                               last_motion_time, recording_start_time,
                               recording_time_s, recording_number_text,
                               sessions, now >>
          ELSE \E closes \in ReleaseOutcomes(expire), quit \in BOOLEAN :
               LET \* lines 462-465
                   sinks2 == IF expire THEN Release(sinks1, video1, closes) ELSE sinks1
                   warn   == expire /\ CloseMessage(sinks2[video1].isOpened)
                   \* lines 474-475
                   sinks3 == IF video2 # None THEN WriteFrame(sinks2, video2, tick + 1)
                             ELSE sinks2
               IN
               /\ motion_detected' = md2
               /\ video_out' = video2
               /\ recording_number' = num2
               /\ motion_detected_realtime' = rt1
               /\ last_motion_time' = last1
               /\ recording_start_time' = start1
               /\ recording_time_s' = IF md1 THEN tD - start1 ELSE recording_time_s
               /\ recording_number_text' = IF md1 THEN recording_number
                                           ELSE recording_number_text
               /\ sessions' = IF trigger THEN Append(sessions, recording_number)
                              ELSE sessions
               /\ bound' = bound2
               /\ clock' = tD
               /\ now' = IF md1 THEN tC ELSE now
               /\ checked' = md1
               /\ ended' = expire
               /\ printed' = msgs1
                     \cup (IF trigger THEN { "Recording started" } ELSE {})
                     \cup (IF expire THEN { "Recording completed" } ELSE {})
                     \cup (IF warn THEN { "Error: Could not finish recording" } ELSE {})
               /\ IF crash
                  THEN /\ Exit("exception", 1)
                       /\ sinks' = sinks2
                  ELSE IF quit
                  THEN \* lines 479-488
                       /\ Exit("quit", 0)
                       /\ \E closes2 \in ReleaseOutcomes(video2 # None) :
                             sinks' = CleanUp(sinks3, video2, closes2)
                  ELSE /\ sinks' = sinks3
                       /\ UNCHANGED << pc, exit_kind, exit_status >>
    /\ UNCHANGED << selected_camera_index, max_width, max_height, requested,
                    device, sensitivity, calls, thresholds, folder_exists >>

\* main, lines 415-417 and 483-488: cap.read() delivers no frame, the loop
\* is left and the clean-up runs.
EndOfStream ==
    /\ pc = "loop"
    /\ \E closes \in BOOLEAN : sinks' = CleanUp(sinks, video_out, closes)
    /\ Exit("end_of_stream", 0)
    /\ printed' = {}
    /\ checked' = FALSE
    /\ ended' = FALSE
    /\ UNCHANGED << selected_camera_index, max_width, max_height, requested,
                    device, sensitivity, calls, thresholds, folder_exists >>
    /\ UNCHANGED << motion_detected, video_out, recording_number, bound,
                    motion_detected_realtime, last_motion_time, recording_start_time,
                    recording_time_s, recording_number_text, attempts, sessions,
                    clock, now, tick, contours, motion_now >>

Next ==
    \/ SelectCamera
    \/ InitializeWebcam
    \/ FindResolution
    \/ Initialize
    \/ Tick
    \/ EndOfStream

Spec == Init /\ [][Next]_vars

\* ------------------------------------------------- calibration on its own
\* initialize() applied, up to MaxCalls times in a row, to a frame size and
\* a nominal threshold drawn from Widths, Heights and Nominals.
InitCal ==
    /\ pc = "calibrate"
    /\ exit_status = 0
    /\ exit_kind = "running"
    /\ printed = {}
    /\ selected_camera_index = << >>
    /\ max_width \in Widths
    /\ max_height \in Heights
    /\ requested = << >>
    /\ device = << >>
    /\ sensitivity \in { Frac(n, 1) : n \in Nominals }
    /\ calls = 0
    /\ thresholds = << >>
    /\ folder_exists \in BOOLEAN
    /\ motion_detected = FALSE
    /\ video_out = None
    /\ recording_number = 1
    /\ bound = {}
    /\ motion_detected_realtime = FALSE
    /\ last_motion_time = 0
    /\ recording_start_time = 0
    /\ recording_time_s = 0
    /\ recording_number_text = 0
    /\ sinks = << >>
    /\ attempts = << >>
    /\ sessions = << >>
    /\ clock = 0
    /\ now = 0
    /\ tick = 0
    /\ contours = {}
    /\ motion_now = FALSE
    /\ checked = FALSE
    /\ ended = FALSE

\* --------------------------------------------- resolution probe on its own
\* find_highest_resolution applied to every device behaviour.
InitRes ==
    /\ pc = "resolution"
    /\ exit_status = 0
    /\ exit_kind = "running"
    /\ printed = {}
    /\ selected_camera_index \in { << i >> : i \in Connected }
    /\ max_width = 0
    /\ max_height = 0
    /\ requested = << >>
    /\ device = << >>
    /\ sensitivity = Frac(nominal_sensitivity, 1)
    /\ calls = 0
    /\ thresholds = << >>
    /\ folder_exists \in BOOLEAN
    /\ motion_detected = FALSE
    /\ video_out = None
    /\ recording_number = 1
    /\ bound = {}
    /\ motion_detected_realtime = FALSE
    /\ last_motion_time = 0
    /\ recording_start_time = 0
    /\ recording_time_s = 0
    /\ recording_number_text = 0
    /\ sinks = << >>
    /\ attempts = << >>
    /\ sessions = << >>
    /\ clock = 0
    /\ now = 0
    /\ tick = 0
    /\ contours = {}
    /\ motion_now = FALSE
    /\ checked = FALSE
    /\ ended = FALSE

ProbeResolution == FindResolutionOn(Devices)

NextRes == ProbeResolution

SpecRes == InitRes /\ [][NextRes]_vars

CalInitialize ==
    /\ pc = "calibrate"
    /\ calls < MaxCalls
    /\ initialize(max_width, max_height, "calibrate")
    /\ UNCHANGED << selected_camera_index, max_width, max_height, requested,
                    device >>
    /\ UNCHANGED loopVars

NextCal == CalInitialize

SpecCal == InitCal /\ [][NextCal]_vars

\* ------------------------------------------------------------------ claims
\* A writer that was opened and has not been released.
Active(k) == sinks[k].opened /\ sinks[k].releases = 0

Warned == "Error: Could not finish recording" \in printed

\* C1 as stated: after every pass that ran the inactivity check, the session
\* has ended exactly if now - recording_start_time >= recording_duration,
\* whatever motion the passes since the start saw.
C1_EndsAtStartPlusDuration ==
    checked => (ended <=> now - recording_start_time >= recording_duration)

\* C1 as amended: after every pass that ran the inactivity check, the
\* session has ended exactly if now - last_motion_time >= recording_duration,
\* last_motion_time being the time of the latest pass with motion; it is
\* then IDLE with the sequence number incremented, and else still RECORDING.
C1_EndsAfterInactivity ==
    checked =>
        /\ ended <=> (now - last_motion_time >= recording_duration)
        /\ motion_detected <=> ~ended
        /\ ended => recording_number = recording_number_text + 1
        /\ ~ended => recording_number = recording_number_text

\* A session that saw motion after its start and ended later than
\* recording_duration after its start.
C1_Witness ==
    /\ checked /\ ended
    /\ last_motion_time > recording_start_time + 1
    /\ now - recording_start_time > recording_duration

\* C2: a pass with motion in IDLE that does not end in the fatal exit leaves
\* the machine RECORDING with one session more and one opened writer more; a
\* pass with motion while RECORDING starts no session and constructs no
\* writer; and never is more than one opened writer unreleased.
C2_OneSession ==
    /\ [][ (tick' = tick + 1 /\ motion_now') =>
             IF motion_detected
             THEN /\ sessions' = sessions
                  /\ Len(sinks') = Len(sinks)
                  /\ attempts' = attempts
             ELSE \/ exit_kind' = "output_unavailable"
                  \/ /\ motion_detected'
                     /\ sessions' = Append(sessions, recording_number)
                     /\ Cardinality({ k \in DOMAIN sinks' : sinks'[k].opened })
                          = Cardinality({ k \in DOMAIN sinks : sinks[k].opened }) + 1 ]_vars
    /\ [](Cardinality({ k \in DOMAIN sinks : Active(k) }) <= 1)

\* A pass with motion while the first session was RECORDING.
C2_Witness ==
    /\ tick >= 2 /\ motion_now /\ motion_detected
    /\ sessions = << 1 >>
    /\ Cardinality({ k \in DOMAIN sinks : Active(k) }) = 1

C4_ReleasedOnce ==
    /\ \A k \in DOMAIN sinks : sinks[k].releases <= 1
    /\ \A k \in DOMAIN sinks : (~sinks[k].opened) => sinks[k].releases = 0
    /\ pc = "loop" => \A k \in DOMAIN sinks : Active(k) => k = video_out
    /\ ended => sinks[Len(sinks)].releases = 1
    /\ pc = "exited" => \A k \in DOMAIN sinks : sinks[k].opened => sinks[k].releases = 1

\* The run was cancelled during a session and its writer released.
C4_Witness ==
    /\ pc = "exited" /\ exit_kind = "quit"
    /\ video_out # None /\ sinks[video_out].opened /\ sinks[video_out].releases = 1
    /\ sinks[video_out].frames # << >>

\* C5: recording_number starts at 1; a step increments it by one if it
\* completes a session and leaves it unchanged otherwise; the i-th session
\* of a run carries number i, and the opened writers carry distinct numbers.
C5_SequenceNumber ==
    /\ recording_number = 1
    /\ [][ recording_number' = IF ended' THEN recording_number + 1
                               ELSE recording_number ]_vars
    /\ [](\A i \in 1 .. Len(sessions) : sessions[i] = i)
    /\ [](\A j, k \in DOMAIN sinks :
             (j < k /\ sinks[j].opened /\ sinks[k].opened)
                 => sinks[j].number < sinks[k].number)

\* Two sessions in one run.
C5_Witness ==
    /\ Len(sessions) = 2
    /\ motion_detected
    /\ sinks[video_out].number = 2

\* C6: the open attempts of a negotiation follow preferred_containers in
\* order, none follows an attempt that opened, and the writer accepted
\* carries the extension of the first container that opened.
C6_FirstSuccess ==
    /\ Len(attempts) <= Len(preferred_containers)
    /\ \A k \in 1 .. Len(attempts) :
          /\ attempts[k].container = preferred_containers[k]
          /\ k < Len(attempts) => ~attempts[k].ok
    /\ (motion_detected /\ pc = "loop") =>
          /\ attempts # << >>
          /\ attempts[Len(attempts)].ok
          /\ sinks[video_out].ext = file_extension(attempts[Len(attempts)].container)

\* MKV failed to open and MP4 opened: two attempts, extension .mp4.
C6_Witness ==
    /\ motion_detected
    /\ Len(attempts) = 2
    /\ ~attempts[1].ok /\ attempts[2].ok
    /\ sinks[video_out].ext = ".mp4"

\* C7: once a negotiation has ended with no writer open the process has
\* exited with status 1, and no frame was written to any writer of that
\* negotiation.
C7_OutputUnavailable ==
    (attempts # << >> /\ \A k \in 1 .. Len(attempts) : ~attempts[k].ok) =>
        /\ pc = "exited"
        /\ exit_kind = "output_unavailable"
        /\ exit_status = 1
        /\ \A k \in DOMAIN sinks : ~sinks[k].opened => sinks[k].frames = << >>

\* Both containers were tried and neither opened.
C7_Witness ==
    /\ Len(attempts) = 2
    /\ ~attempts[1].ok /\ ~attempts[2].ok
    /\ exit_kind = "output_unavailable"

\* C8: after a pass that completed a session, the warning was printed
\* exactly if the released writer still reports open.
C8_WarnIffNotClosed ==
    ended => (Warned <=> sinks[Len(sinks)].isOpened)

\* C9: a run that ended for a fatal condition printed a diagnostic and ended
\* with a status other than 0.
C9_FatalNonZero ==
    (pc = "exited" /\ exit_kind \in { "no_camera", "camera_not_opened",
                                      "directory_not_created", "output_unavailable" })
        => (printed # {} /\ exit_status # 0)

\* C10: a second call of initialize with the same frame size yields the
\* threshold the first call yielded.
C10_Idempotent ==
    Len(thresholds) >= 2 => thresholds[2] = thresholds[1]

\* Comparison and doubling of fractions
Less(a, b) == a.n * b.d < b.n * a.d

Twice(a) == Frac(2 * a.n, a.d)

\* C11: the first call of initialize turns the nominal constant s into t
\* with t * (1280*720) = s * (width*height); t doubles when the area doubles
\* and is larger for every larger area; with nominal 700 it is 700 at
\* 1280x720 and 700/3 (= 700*(640*480)/(1280*720)) at 640x480.
C11_LinearInArea ==
    [][ (calls = 0 /\ calls' = 1) =>
          LET s    == sensitivity
              t    == sensitivity'
              area == max_width * max_height
              ref  == ref_width * ref_height
              g    == GCD(area, ref)
          IN  /\ s.d = 1
              /\ area = 0 => t.n = 0
              /\ area # 0 => t.n * (ref \div g) = t.d * s.n * (area \div g)
              /\ ScaleSensitivity(s, 2 * max_width, max_height) = Twice(t)
              /\ \A w \in Widths, h \in Heights :
                    (w * h > area) => Less(t, ScaleSensitivity(s, w, h))
              /\ (s.n = 700 /\ max_width = 1280 /\ max_height = 720)
                    => t = [ n |-> 700, d |-> 1 ]
              /\ (s.n = 700 /\ max_width = 640 /\ max_height = 480)
                    => t = [ n |-> 700, d |-> 3 ] ]_vars

\* initialize was called once for 640x480 with nominal 700.
C11_Witness ==
    /\ calls = 1
    /\ max_width = 640 /\ max_height = 480
    /\ thresholds = << [ n |-> 700, d |-> 3 ] >>

\* C12: no session is ever started while the threshold is 0.
C12_NoSessionAtZero ==
    (calls >= 1 /\ sensitivity.n = 0) => (sessions = << >> /\ ~motion_detected)

\* C13: with m the first candidate the device reads back exactly, the
\* probe returns candidate m after requesting candidates 1..m and no other;
\* with no such candidate it returns (0,0) after requesting all of them.
Matches(i) == ReadBack(resolutions_to_try[i], device[i]) = resolutions_to_try[i]

C13_FirstExactMatch ==
    device # << >> =>
        LET n   == Len(requested)
            all == 1 .. Len(resolutions_to_try)
        IN  /\ n \in all
            /\ requested = SubSeq(resolutions_to_try, 1, n)
            /\ \A i \in 1 .. n - 1 : ~Matches(i)
            /\ IF \E i \in all : Matches(i)
               THEN Matches(n) /\ << max_width, max_height >> = resolutions_to_try[n]
               ELSE n = Len(resolutions_to_try) /\ << max_width, max_height >> = << 0, 0 >>

\* The device reports the width of 1920x1080 and the height of 1280x720
\* without the other dimension, and accepts 640x480.
C13_Witness ==
    /\ device # << >>
    /\ device[1] = "width_only" /\ device[2] = "height_only" /\ device[3] = "exact"
    /\ max_width = 640 /\ max_height = 480
    /\ Len(requested) = 3

\* main, lines 471-475: the two frames the latest pass got from
\* display_information; the pass reached the call and the call returned.
Displayed == tick >= 1 /\ exit_kind \notin { "exception", "output_unavailable" }

Frames ==
    display_information(contours, motion_detected_realtime, recording_time_s,
                        recording_number_text, clock)

\* C14 as stated: the display frame and the recording frame of a pass carry
\* the same texts.
C14_SameText ==
    Displayed =>
        /\ DOMAIN Frames.outframe.text = DOMAIN Frames.frame.text
        /\ \A f \in DOMAIN Frames.frame.text :
              Frames.outframe.text[f] = Frames.frame.text[f]

\* C14: the recording frame carries the timestamp, the recording time and
\* the recording number of the display frame, with the same values, and no
\* motion status; the contours are highlighted on the display frame only.
C14_TextWithoutStatus ==
    Displayed =>
        /\ DOMAIN Frames.frame.text = { "timestamp", "status", "time", "number" }
        /\ DOMAIN Frames.outframe.text = DOMAIN Frames.frame.text \ { "status" }
        /\ \A f \in DOMAIN Frames.outframe.text :
              Frames.outframe.text[f] = Frames.frame.text[f]
        /\ Frames.frame.highlight = contours
        /\ Frames.outframe.highlight = {}

\* A pass of a running session with contours in the frame, written to the file.
C14_Witness ==
    /\ Displayed
    /\ motion_detected /\ contours # {}
    /\ video_out # None /\ sinks[video_out].frames # << >>
    /\ Frames.frame.text.status = "Motion detected"
    /\ "status" \notin DOMAIN Frames.outframe.text

\* The writers that hold frame f.
Holders(ss, f) ==
    { k \in DOMAIN ss : \E i \in DOMAIN ss[k].frames : ss[k].frames[i] = f }

\* C15: a pass writes its frame exactly if a session is active after its
\* state update, as the last frame of the writer of that session; writers
\* only grow at the end, a released writer never grows, every writer holds
\* its frames in arrival order and no frame is held twice.
C15_WrittenWhileActive ==
    /\ [](\A k \in DOMAIN sinks :
            /\ \A i, j \in DOMAIN sinks[k].frames :
                  i < j => sinks[k].frames[i] < sinks[k].frames[j]
            /\ \A f \in 1 .. tick : Cardinality(Holders(sinks, f)) <= 1)
    /\ [][ /\ \A k \in DOMAIN sinks :
                /\ sinks'[k].frames \in { sinks[k].frames, Append(sinks[k].frames, tick') }
                /\ sinks[k].releases > 0 => sinks'[k].frames = sinks[k].frames
           /\ tick' = tick => \A k \in DOMAIN sinks' : sinks'[k].frames = sinks[k].frames
           /\ (tick' = tick + 1 /\ exit_kind' # "output_unavailable") =>
                /\ Holders(sinks', tick') = (IF motion_detected' THEN { video_out' } ELSE {})
                /\ motion_detected' =>
                      sinks'[video_out'].frames[Len(sinks'[video_out'].frames)] = tick'
                /\ (motion_now' /\ ~motion_detected) => motion_detected'
                /\ ended' => ~motion_detected'
           /\ exit_kind' = "output_unavailable" => Holders(sinks', tick') = {}
         ]_vars

\* A session whose trigger pass and second pass were written and whose
\* expiry pass was not.
C15_Witness ==
    /\ tick = 3 /\ ended
    /\ Len(sinks) = 1 /\ sinks[1].frames = << 1, 2 >>
    /\ sinks[1].releases = 1

\* C16 as stated: the motion status handed to display_information by a pass
\* equals that pass's motion_now (some contour of the frame is larger than
\* the threshold), also on a pass whose contour set is empty.
C16_StatusIsMotionNow ==
    Displayed =>
        /\ motion_now = (\E a \in contours : Exceeds(a, sensitivity))
        /\ motion_detected_realtime = motion_now

\* C17: a pass that starts and ends inside a session keeps
\* recording_start_time, recording_number and the writer; with motion it
\* sets last_motion_time to a time read during the pass, without motion it
\* keeps last_motion_time.  The writer stays unreleased unless the pass ends
\* with the quit key.
C17_OnlyLastMotionMoves ==
    [][ (tick' = tick + 1 /\ motion_detected /\ motion_detected') =>
          /\ recording_start_time' = recording_start_time
          /\ recording_number' = recording_number
          /\ video_out' = video_out
          /\ Len(sinks') = Len(sinks)
          /\ sessions' = sessions
          /\ pc' = "loop" => sinks'[video_out].releases = 0
          /\ IF motion_now'
             THEN clock <= last_motion_time' /\ last_motion_time' <= now'
             ELSE last_motion_time' = last_motion_time
      ]_vars

\* A pass without motion inside a session, after one with motion that moved
\* last_motion_time.
C17_Witness ==
    /\ tick = 3 /\ motion_detected /\ ~motion_now /\ pc = "loop"
    /\ last_motion_time > recording_start_time
    /\ now > last_motion_time
    /\ sessions = << 1 >>

\* C18: a pass ends a session only if at its inactivity check
\* now - recording_start_time >= recording_duration.
C18_NoEarlyExpiry ==
    ended => now - recording_start_time >= recording_duration

\* A session that ended exactly recording_duration after it started.
C18_Witness ==
    /\ ended
    /\ now - recording_start_time = recording_duration
    /\ sinks[Len(sinks)].releases = 1

\* C19 as stated: no pass fails on an unassigned motion_detected_realtime,
\* recording_time_text or recording_number_text.
C19_ArgumentsAssigned ==
    /\ exit_kind # "exception"
    /\ (tick >= 1 /\ exit_kind # "output_unavailable") => DisplayArguments \subseteq bound

====
